---- MODULE Spec2Model ----
(***************************************************************************)
(* Model of notifier.py (PFigs/sms-pusher): the __main__ pipeline          *)
(*   validate configuration -> load contacts -> push_sms ->                *)
(*   send_email_confirmation -> print_response                             *)
(* with the Nexmo provider, the SMTP server and the spreadsheet as the     *)
(* environment.  A Python exception that nothing catches ends the process: *)
(* it is recorded in exc and the run stops in pc = "aborted".              *)
(***************************************************************************)
EXTENDS Integers, Sequences, FiniteSets, TLC

\* Largest number of data rows of the spreadsheet.
MaxRows == 2

---------------------------------------------------------------------------
(* Values *)

\* The keys __main__ reads with config.get and treats as required.
Keys ==
    {"SMS.SENDER", "NEXMO.API_KEY", "NEXMO.API_SECRET", "SMS.DESTINATION",
     "SMS.CONTENT", "EMAIL.SENDER", "EMAIL.PASSWORD"}

\* args.destination when --destination is not given (argparse default=None).
NoDest == <<>>

\* --destination values (argparse type=str): text, a sequence of characters.
CliDestinations == {<<"1", "5">>, <<"+", "7">>}

\* A stored phone: text (a CLI destination, a text cell) or a number
\* (pandas reads a numeric Phone cell as an integer).
PhoneStr(s) == [type |-> "str", num |-> 0, txt |-> s]
PhoneInt(n) == [type |-> "int", num |-> n, txt |-> <<>>]

\* Phone cells of the spreadsheet.
SheetPhones == {PhoneInt(15), PhoneStr(<<"+", "7">>)}

\* Email cells of the spreadsheet: "nan" is an empty cell.
SheetEmails == {"nan", "a@x.org"}

\* A contact has an email address on file.
KnownEmail(e) == e \notin {"None", "nan"}

\* The 'status' of a provider message: an int or a string, by its digits.
Statuses ==
    {[type |-> "int", digits |-> "0"], [type |-> "int", digits |-> "1"],
     [type |-> "str", digits |-> "0"]}

\* The attribute client.sms; Client.__init__ never sets it.
NoSms == [set |-> FALSE, messages |-> <<>>]
Response(status) == [set |-> TRUE, messages |-> <<[status |-> status]>>]

\* sms_content, sender and the two email bodies of the run.
SmsContent == <<"H", "i">>
Sender == "SENDER"
InSuccess == "We have sent you an SMS, please check your phone!"
InError == "We could not reach you by SMS, please get in touch with us!"

NoExc == [type |-> "none", at |-> "none"]
Raised(type, at) == [type |-> type, at |-> at]

---------------------------------------------------------------------------
(* Pure functions *)

DigitChar(d) == <<"0", "1", "2", "3", "4", "5", "6", "7", "8", "9">>[d + 1]

\* str(n) for a non-negative integer.
RECURSIVE DecimalDigits(_)
DecimalDigits(n) ==
    IF n < 10 THEN <<DigitChar(n)>>
    ELSE DecimalDigits(n \div 10) \o <<DigitChar(n % 10)>>

\* '{0}'.format(value) of a stored phone.
Format(phone) ==
    IF phone.type = "int" THEN DecimalDigits(phone.num) ELSE phone.txt

\* Notify.build_simple_sms: '{0}'.format(content) of a text.
build_simple_sms(content) == content

\* Client(firstname, surname, phone, email=None).
Client(firstname, surname, phone, email) ==
    [firstname |-> firstname, surname |-> surname, phone |-> phone,
     email |-> email, sms |-> NoSms]

\* Python's status == 0: an int 0 equals 0, the string '0' does not.
PyEqZero(status) == status.type = "int" /\ status.digits = "0"

\* The argument of nexmo.send_message for one client.
SendRequestPlus(client, content) ==
    [from |-> Sender, to |-> <<"+">> \o Format(client.phone), text |-> content]

SendRequest(client, content) ==
    [from |-> Sender, to |-> Format(client.phone), text |-> content]

\* The body send_email_confirmation picks for an attached response.
ChooseBodySwapped(sms) ==
    IF PyEqZero(sms.messages[1].status) THEN InError ELSE InSuccess

ChooseBody(sms) ==
    IF PyEqZero(sms.messages[1].status) THEN InSuccess ELSE InError

\* The validation of __main__: the KeyError message of the first failing
\* try block, "none" when all pass.
ConfigErrorNoDestinationCheck(cfg, dest) ==
    IF ~({"SMS.SENDER", "NEXMO.API_KEY", "NEXMO.API_SECRET"} \subseteq cfg)
        THEN "Missing NEXMO details"
    ELSE IF "SMS.CONTENT" \notin cfg
        THEN "Missing SMS content"
    ELSE IF ~({"EMAIL.SENDER", "EMAIL.PASSWORD"} \subseteq cfg)
        THEN "Missing EMAIL details (FROM and PASSWORD)"
    ELSE "none"

ConfigError(cfg, dest) ==
    IF ~({"SMS.SENDER", "NEXMO.API_KEY", "NEXMO.API_SECRET"} \subseteq cfg)
        THEN "Missing NEXMO details"
    ELSE IF "SMS.DESTINATION" \notin cfg /\ dest = NoDest
        THEN "Please enter a valid destination"
    ELSE IF "SMS.CONTENT" \notin cfg
        THEN "Missing SMS content"
    ELSE IF ~({"EMAIL.SENDER", "EMAIL.PASSWORD"} \subseteq cfg)
        THEN "Missing EMAIL details (FROM and PASSWORD)"
    ELSE "none"

\* Whether __main__ loads the contacts with Notify.parser.
UsesParserPreferConfig(cfg, dest) == "SMS.DESTINATION" \in cfg \/ dest = NoDest

UsesParser(cfg, dest) == dest = NoDest

\* The spreadsheets: whether the header has the four columns, and the rows.
Rows == UNION {[1..n -> SheetPhones \X SheetEmails] : n \in 0..MaxRows}
Sheets == [columns : BOOLEAN, rows : Rows]

---------------------------------------------------------------------------
(* State *)

VARIABLES
    config,            \* the keys present in the .ini file
    args_destination,  \* args.destination
    clients,           \* notify.clients
    pc,                \* position of __main__
    i,                 \* position of the running for loop in clients
    exc,               \* the uncaught exception that ended the run
    parser_calls,      \* invocations of Notify.parser
    nexmo_log,         \* provider send_message calls, in order
    server,            \* the smtplib.SMTP session
    msg_to,            \* the To headers of msg
    mail_log,          \* server.send_message calls, in order
    stdout             \* lines print_response printed

vars ==
    <<config, args_destination, clients, pc, i, exc, parser_calls, nexmo_log,
      server, msg_to, mail_log, stdout>>

Init ==
    /\ config \in SUBSET Keys
    /\ args_destination \in {NoDest} \cup CliDestinations
    /\ clients = <<>>
    /\ pc = "config"
    /\ i = 1
    /\ exc = NoExc
    /\ parser_calls = 0
    /\ nexmo_log = <<>>
    /\ server = "none"
    /\ msg_to = <<>>
    /\ mail_log = <<>>
    /\ stdout = <<>>

\* An exception nothing catches: the process ends with a traceback.
Abort(type, at) ==
    /\ exc' = Raised(type, at)
    /\ pc' = "aborted"

---------------------------------------------------------------------------
(* __main__: validation of the configuration *)

ValidateConfig ==
    /\ pc = "config"
    /\ IF ConfigError(config, args_destination) # "none"
         THEN Abort("KeyError", "config")
         ELSE pc' = "load" /\ exc' = exc
    /\ UNCHANGED <<config, args_destination, clients, i, parser_calls,
                   nexmo_log, server, msg_to, mail_log, stdout>>

---------------------------------------------------------------------------
(* __main__: load phase *)

\* Notify.parser on the spreadsheet the configuration names: the first row
\* raises KeyError when a column is missing; no row, no error.
parser(sheet) ==
    /\ parser_calls' = parser_calls + 1
    /\ IF sheet.rows # <<>> /\ ~sheet.columns
         THEN /\ Abort("KeyError", "parser")
              /\ clients' = clients
         ELSE /\ clients' = clients \o
                    [k \in 1..Len(sheet.rows) |->
                        Client("Name", "Surname", sheet.rows[k][1], sheet.rows[k][2])]
              /\ pc' = "push_sms"
              /\ exc' = exc

LoadParser ==
    /\ pc = "load"
    /\ UsesParser(config, args_destination)
    /\ \E sheet \in Sheets : parser(sheet)
    /\ UNCHANGED <<config, args_destination, i, nexmo_log, server, msg_to,
                   mail_log, stdout>>

LoadBypass ==
    /\ pc = "load"
    /\ ~UsesParser(config, args_destination)
    /\ clients' = Append(clients,
                         Client("CMD", "Line", PhoneStr(args_destination), "None"))
    /\ pc' = "push_sms"
    /\ UNCHANGED <<config, args_destination, i, exc, parser_calls, nexmo_log,
                   server, msg_to, mail_log, stdout>>

---------------------------------------------------------------------------
(* Notify.push_sms *)

PushSmsEmpty ==
    /\ pc = "push_sms"
    /\ clients = <<>>
    /\ pc' = "confirm"
    /\ UNCHANGED <<config, args_destination, clients, i, exc, parser_calls,
                   nexmo_log, server, msg_to, mail_log, stdout>>

\* One iteration: the provider answers, whatever the status it reports.
PushSmsSend ==
    /\ pc = "push_sms"
    /\ i \in 1..Len(clients)
    /\ \E status \in Statuses :
        /\ nexmo_log' = Append(nexmo_log,
              [client |-> i,
               request |-> SendRequest(clients[i], build_simple_sms(SmsContent)),
               response |-> Response(status)])
        /\ clients' = [clients EXCEPT ![i].sms = Response(status)]
    /\ IF i = Len(clients)
         THEN pc' = "confirm" /\ i' = 1
         ELSE pc' = pc /\ i' = i + 1
    /\ UNCHANGED <<config, args_destination, exc, parser_calls, server, msg_to,
                   mail_log, stdout>>

\* One iteration: the call fails at transport level; send_message raises.
PushSmsRaise ==
    /\ pc = "push_sms"
    /\ i \in 1..Len(clients)
    /\ nexmo_log' = Append(nexmo_log,
          [client |-> i,
           request |-> SendRequest(clients[i], build_simple_sms(SmsContent)),
           response |-> NoSms])
    /\ Abort("TransportError", "push_sms")
    /\ UNCHANGED <<config, args_destination, clients, i, parser_calls, server,
                   msg_to, mail_log, stdout>>

---------------------------------------------------------------------------
(* Notify.send_email_confirmation *)

SmtpConnect ==
    /\ pc = "confirm"
    /\ server' = "connected"
    /\ msg_to' = <<>>
    /\ pc' = "starttls"
    /\ UNCHANGED <<config, args_destination, clients, i, exc, parser_calls,
                   nexmo_log, mail_log, stdout>>

SmtpConnectFails ==
    /\ pc = "confirm"
    /\ Abort("SMTPException", "connect")
    /\ UNCHANGED <<config, args_destination, clients, i, parser_calls,
                   nexmo_log, server, msg_to, mail_log, stdout>>

SmtpStartTls ==
    /\ pc = "starttls"
    /\ server' = "tls"
    /\ pc' = "login"
    /\ UNCHANGED <<config, args_destination, clients, i, exc, parser_calls,
                   nexmo_log, msg_to, mail_log, stdout>>

SmtpStartTlsFails ==
    /\ pc = "starttls"
    /\ Abort("SMTPException", "starttls")
    /\ UNCHANGED <<config, args_destination, clients, i, parser_calls,
                   nexmo_log, server, msg_to, mail_log, stdout>>

SmtpLogin ==
    /\ pc = "login"
    /\ server' = "authenticated"
    /\ pc' = "confirm_loop"
    /\ i' = 1
    /\ UNCHANGED <<config, args_destination, clients, exc, parser_calls,
                   nexmo_log, msg_to, mail_log, stdout>>

SmtpLoginFails ==
    /\ pc = "login"
    /\ Abort("SMTPException", "login")
    /\ UNCHANGED <<config, args_destination, clients, i, parser_calls,
                   nexmo_log, server, msg_to, mail_log, stdout>>

\* One iteration of the loop over the clients.  Reading an sms attribute
\* that was never set raises AttributeError; msg is one EmailMessage for all
\* clients, and assigning a second To header to it raises ValueError; the
\* server accepts the message or send_message raises.
ConfirmContact ==
    /\ pc = "confirm_loop"
    /\ i \in 1..Len(clients)
    /\ LET client == clients[i] IN
        IF ~client.sms.set
          THEN /\ Abort("AttributeError", "client.sms")
               /\ UNCHANGED <<i, msg_to, mail_log>>
        ELSE IF msg_to # <<>>
          THEN /\ Abort("ValueError", "msg['To']")
               /\ UNCHANGED <<i, msg_to, mail_log>>
        ELSE /\ msg_to' = <<client.email>>
             /\ \E sent \in BOOLEAN :
                 /\ mail_log' = Append(mail_log,
                       [client |-> i, to |-> client.email,
                        body |-> ChooseBody(client.sms), sent |-> sent])
                 /\ IF sent
                      THEN i' = i + 1 /\ pc' = pc /\ exc' = exc
                      ELSE i' = i /\ Abort("SMTPException", "send_message")
    /\ UNCHANGED <<config, args_destination, clients, parser_calls, nexmo_log,
                   server, stdout>>

SmtpQuit ==
    /\ pc = "confirm_loop"
    /\ i > Len(clients)
    /\ server' = "closed"
    /\ pc' = "print"
    /\ UNCHANGED <<config, args_destination, clients, i, exc, parser_calls,
                   nexmo_log, msg_to, mail_log, stdout>>

---------------------------------------------------------------------------
(* Notify.print_response *)

\* Client.__str__: '{0} {1} {2}'.format(firstname, surname, phone).
ClientStr(client) == <<client.firstname, client.surname, Format(client.phone)>>

PrintResponse ==
    /\ pc = "print"
    /\ IF \E k \in 1..Len(clients) : ~clients[k].sms.set
         THEN /\ Abort("AttributeError", "print_response")
              /\ stdout' = stdout
         ELSE /\ stdout' = [k \in 1..Len(clients) |->
                              [client |-> ClientStr(clients[k]),
                               status |-> clients[k].sms.messages]]
              /\ pc' = "done"
              /\ exc' = exc
    /\ UNCHANGED <<config, args_destination, clients, i, parser_calls,
                   nexmo_log, server, msg_to, mail_log>>

---------------------------------------------------------------------------

Next ==
    \/ ValidateConfig
    \/ LoadParser
    \/ LoadBypass
    \/ PushSmsEmpty
    \/ PushSmsSend
    \/ PushSmsRaise
    \/ SmtpConnect
    \/ SmtpConnectFails
    \/ SmtpStartTls
    \/ SmtpStartTlsFails
    \/ SmtpLogin
    \/ SmtpLoginFails
    \/ ConfirmContact
    \/ SmtpQuit
    \/ PrintResponse

Spec == Init /\ [][Next]_vars


---------------------------------------------------------------------------
(* Phases of the run *)

\* push_sms has ended: it returned, or an exception left it.
NotifyEnded ==
    \/ pc \in {"confirm", "starttls", "login", "confirm_loop", "print", "done"}
    \/ pc = "aborted" /\ exc.at \notin {"config", "parser"}

\* send_email_confirmation has ended: it returned, or an exception left it.
ConfirmEnded ==
    \/ pc \in {"print", "done"}
    \/ pc = "aborted" /\ exc.at \in {"connect", "starttls", "login", "client.sms",
                                      "msg['To']", "send_message", "print_response"}

\* The load phase has ended.
LoadEnded == pc \notin {"config", "load"} /\ exc.at # "config"

\* The process has ended.
RunEnded == pc \in {"done", "aborted"}

\* A provider call that is a delivery failure: transport failure, or a
\* status other than 0.
DeliveryFailed(call) ==
    \/ ~call.response.set
    \/ call.response.messages[1].status # [type |-> "int", digits |-> "0"]

\* int(s) of a text of decimal digits.
IsDigit(c) == \E d \in 0..9 : DigitChar(d) = c
DigitValue(c) == CHOOSE d \in 0..9 : DigitChar(d) = c
RECURSIVE ParseDecimal(_)
ParseDecimal(s) ==
    IF s = <<>> THEN 0
    ELSE 10 * ParseDecimal(SubSeq(s, 1, Len(s) - 1)) + DigitValue(s[Len(s)])

---------------------------------------------------------------------------
(* Claims *)

\* C1 (as claimed): once push_sms has ended, it has made exactly one
\* provider call per contact, call k for contact k in load order, and every
\* contact carries the response of its own call; with no contacts it made
\* no call and raised nothing.
C1_OneCallPerContactInOrder ==
    NotifyEnded =>
        /\ Len(nexmo_log) = Len(clients)
        /\ \A k \in 1..Len(nexmo_log) :
              /\ nexmo_log[k].client = k
              /\ clients[k].sms.set
              /\ clients[k].sms = nexmo_log[k].response
        /\ (clients = <<>> => exc.at # "push_sms")

C3_DeliveryFailureRecordedNotRaised ==
    \A k \in 1..Len(nexmo_log) :
        DeliveryFailed(nexmo_log[k]) =>
            /\ clients[nexmo_log[k].client].sms.set
            /\ exc.at # "push_sms"
            /\ (NotifyEnded => Len(nexmo_log) = Len(clients))

C5_SessionClosedOnEveryExit ==
    (ConfirmEnded /\ server # "none") => server = "closed"

\* C6 (as claimed): a failed send for one recipient does not end the loop:
\* the exception does not leave send_email_confirmation, and when the phase
\* has ended every later contact with a delivery result has had its send
\* attempted.
C6_SendFailureDoesNotAbortLoop ==
    \A k \in 1..Len(mail_log) :
        ~mail_log[k].sent =>
            /\ exc.at # "send_message"
            /\ (ConfirmEnded =>
                  \A j \in (mail_log[k].client + 1)..Len(clients) :
                      clients[j].sms.set =>
                          \E m \in 1..Len(mail_log) : mail_log[m].client = j)

\* C7 (as claimed): a run in which the SMTP connection or login failed
\* after push_sms returned ends with print_response done: one summary line
\* per contact, showing the result push_sms recorded.
C7_SmtpFailureStillPrints ==
    (RunEnded /\ exc.at \in {"connect", "login"}) =>
        /\ Len(stdout) = Len(clients)
        /\ \A k \in 1..Len(stdout) : stdout[k].status = nexmo_log[k].response.messages

\* A key the claim calls required is missing.
MissingRequiredKey ==
    \/ \E key \in {"SMS.SENDER", "NEXMO.API_KEY", "NEXMO.API_SECRET", "SMS.CONTENT"} :
          key \notin config
    \/ "SMS.DESTINATION" \notin config /\ args_destination = NoDest

\* C8: in a run with a required key missing nothing touches the network:
\* no provider call, no SMTP connection or attempt at one; the run does not
\* get past the validation and ends there with the configuration error.
C8_NoNetworkWhenKeyMissing ==
    MissingRequiredKey =>
        /\ nexmo_log = <<>>
        /\ server = "none"
        /\ mail_log = <<>>
        /\ parser_calls = 0
        /\ pc \in {"config", "aborted"}
        /\ exc \in {NoExc, Raised("KeyError", "config")}
        /\ (pc = "aborted" => exc = Raised("KeyError", "config"))

\* C8 witness: a run with no spreadsheet DESTINATION and no CLI destination,
\* all other keys present, has been aborted by the validation.
C8_Witness ==
    /\ pc = "aborted"
    /\ exc = Raised("KeyError", "config")
    /\ args_destination = NoDest
    /\ config = Keys \ {"SMS.DESTINATION"}

\* C9: with a CLI destination the loader is never invoked and, once the
\* load phase has ended, the contact list is exactly one contact whose
\* phone is that destination, whatever the configuration says about
\* DESTINATION; without one, the loader has been invoked exactly once when
\* the load phase has ended.
C9_BypassSkipsLoader ==
    /\ args_destination # NoDest => parser_calls = 0
    /\ (LoadEnded /\ args_destination # NoDest) =>
          /\ Len(clients) = 1
          /\ clients[1].phone.type = "str"
          /\ clients[1].phone.txt = args_destination
    /\ (LoadEnded /\ args_destination = NoDest) => parser_calls = 1

\* C9 witness: the load phase has ended in a run with a CLI destination
\* whose configuration names a spreadsheet DESTINATION too.
C9_Witness ==
    /\ LoadEnded
    /\ args_destination # NoDest
    /\ "SMS.DESTINATION" \in config
    /\ Len(clients) = 1

\* C10 (as claimed): an email send is issued only for a contact with an
\* attached delivery result and a known email address.
C10_MailOnlyWithResultAndEmail ==
    \A k \in 1..Len(mail_log) :
        /\ clients[mail_log[k].client].sms.set
        /\ KnownEmail(clients[mail_log[k].client].email)

====
